---- MODULE Spec2Model ----
(***************************************************************************)
(* Compaction Guard plugin (extensions/compaction-guard/index.ts).          *)
(*                                                                         *)
(* The plugin registers three hooks on the host: before_compaction saves a *)
(* digest of the running conversation, after_compaction marks the session  *)
(* as owing a recovery notice, before_agent_start injects the notice once. *)
(* Text is modelled as a sequence of one-character strings, so that        *)
(* truncation, labelling, joining and rendering are computed as the code   *)
(* computes them.  JavaScript values are tagged records.                   *)
(***************************************************************************)
EXTENDS Integers, Sequences, FiniteSets, TLC

VARIABLES
    compactionJustHappened, \* state.compactionJustHappened
    lastCompactionTime,     \* state.lastCompactionTime
    compactionCount,        \* state.compactionCount
    savedContext,           \* state.savedContext
    needsRecovery,          \* the Set<string> created by register()
    minMessages,            \* config.minMessagesForSnapshot ?? 10
    injectRecovery,         \* config.recoveryPrompt !== false
    file,                   \* the snapshot file at contextPath
    now,                    \* the clock read by Date.now() / new Date()
    tasks,                  \* hook invocations suspended at an await
    ret,                    \* observation: the handler that finished in this step
    phase,                  \* observation: where each session is in its lifecycle
    bcSeen,                 \* observation: a qualifying before_compaction awaits
                            \*   its after_compaction
    nQualifying,            \* observation: qualifying before_compaction calls
    unspent,                \* observation: compaction events not yet matched by an injection
    scen,                   \* observation: progress of the two spec scenarios
    xin,                    \* extractor harness: the message history
    xout                    \* extractor harness: the digest produced

vars == <<compactionJustHappened, lastCompactionTime, compactionCount, savedContext,
          needsRecovery, minMessages, injectRecovery, file, now, tasks,
          ret, phase, bcSeen, nQualifying, unspent, scen, xin, xout>>

----------------------------------------------------------------------------
(* JavaScript values *)

Undefined == [t |-> "undefined"]
Null == [t |-> "null"]
Str(s) == [t |-> "string", v |-> s]
Num(n) == [t |-> "number", v |-> n]
Arr(a) == [t |-> "array", v |-> a]
Message(role, content) == [t |-> "object", role |-> role, content |-> content]
Block(type, text) == [t |-> "object", type |-> type, text |-> text]

\* `if (x)` on a string-or-null value: null, undefined and "" are falsy
Truthy(x) == x.t = "string" /\ Len(x.v) > 0

----------------------------------------------------------------------------
(* Text helpers *)

UpperCase ==
    <<"A","B","C","D","E","F","G","H","I","J","K","L","M",
      "N","O","P","Q","R","S","T","U","V","W","X","Y","Z">>
LowerCase ==
    <<"a","b","c","d","e","f","g","h","i","j","k","l","m",
      "n","o","p","q","r","s","t","u","v","w","x","y","z">>
DigitChars == <<"0","1","2","3","4","5","6","7","8","9">>

ToLower(c) ==
    IF \E i \in 1..Len(UpperCase) : UpperCase[i] = c
    THEN LowerCase[CHOOSE i \in 1..Len(UpperCase) : UpperCase[i] = c]
    ELSE c

LowerText(s) == [i \in 1..Len(s) |-> ToLower(s[i])]

\* String.prototype.includes / an unanchored literal match
Contains(s, p) ==
    \E i \in 0..(Len(s) - Len(p)) : SubSeq(s, i + 1, i + Len(p)) = p

StartsWith(s, p) ==
    Len(s) >= Len(p) /\ SubSeq(s, 1, Len(p)) = p

EndsWith(s, p) ==
    Len(s) >= Len(p) /\ SubSeq(s, Len(s) - Len(p) + 1, Len(s)) = p

\* Array.prototype.join
RECURSIVE Join(_, _)
Join(parts, sep) ==
    IF Len(parts) = 0 THEN <<>>
    ELSE IF Len(parts) = 1 THEN parts[1]
    ELSE parts[1] \o sep \o Join(Tail(parts), sep)

\* Array.prototype.slice(-n)
SliceLast(s, n) ==
    IF Len(s) <= n THEN s ELSE SubSeq(s, Len(s) - n + 1, Len(s))

\* String.prototype.slice(0, n)
SliceFirst(s, n) ==
    IF Len(s) <= n THEN s ELSE SubSeq(s, 1, n)

\* Number to decimal text, as a template literal renders it (n >= 0)
RECURSIVE ToDigits(_)
ToDigits(n) ==
    IF n < 10 THEN <<DigitChars[n + 1]>>
    ELSE ToDigits(n \div 10) \o <<DigitChars[(n % 10) + 1]>>

RECURSIVE PadStart(_, _)
PadStart(s, w) == IF Len(s) >= w THEN s ELSE PadStart(<<"0">> \o s, w)

DatePrefix ==
    <<"1","9","7","0","-","0","1","-">>

\* Date.prototype.toISOString for a clock value in milliseconds.  Every value
\* a 32-bit integer can hold falls in January 1970, so the year and month
\* are fixed text here.
ToISOString(ms) ==
    DatePrefix \o PadStart(ToDigits((ms \div 86400000) + 1), 2) \o <<"T">>
        \o PadStart(ToDigits((ms \div 3600000) % 24), 2) \o <<":">>
        \o PadStart(ToDigits((ms \div 60000) % 60), 2) \o <<":">>
        \o PadStart(ToDigits((ms \div 1000) % 60), 2) \o <<".">>
        \o PadStart(ToDigits(ms % 1000), 3) \o <<"Z">>

----------------------------------------------------------------------------
(* Program constants *)

RecentWindow == 20
MaxParts == 5
UserLimit == 500
AssistantLimit == 300
StaleMs == 60000
DefaultMinMessages == 10
DefaultKey == "default"

UserLabel ==
    <<"U","s","e","r",":"," ">>

AssistantLabel ==
    <<"A","s","s","i","s","t","a","n","t",":"," ">>

Ellipsis ==
    <<".",".",".">>

BlankLine ==
    <<"\n","\n">>

NewLine ==
    <<"\n">>

TaskIndicators ==
    { <<"w","o","r","k","i","n","g"," ","o","n">>,
      <<"c","r","e","a","t","i","n","g">>,
      <<"b","u","i","l","d","i","n","g">>,
      <<"f","i","x","i","n","g">>,
      <<"i","m","p","l","e","m","e","n","t","i","n","g">>,
      <<"i","n","v","e","s","t","i","g","a","t","i","n","g">> }

\* The warning sign and the backtick are written as their code points.
RECOVERY_PROMPT ==
    <<"#","#"," ","U+26A0","U+FE0F"," ","C","O","M","P","A","C","T","I","O","N"," ","R","E","C",
      "O","V","E","R","Y","\n","\n","M","e","m","o","r","y"," ","c","o","m","p","a","c","t","i",
      "o","n"," ","j","u","s","t"," ","r","a","n","."," ","Y","o","u","r"," ","p","r","e","v",
      "i","o","u","s"," ","c","o","n","t","e","x","t"," ","w","a","s"," ","c","o","m","p","r",
      "e","s","s","e","d",".","\n","\n","*","*","W","h","a","t"," ","t","o"," ","d","o",":","*",
      "*","\n","1","."," ","C","h","e","c","k"," ","U+0060","m","e","m","o","r","y","/","c","o","m",
      "p","a","c","t","i","o","n","-","c","o","n","t","e","x","t",".","m","d","U+0060"," ","f","o",
      "r"," ","s","a","v","e","d"," ","t","a","s","k"," ","s","t","a","t","e","\n","2","."," ",
      "C","h","e","c","k"," ","U+0060","m","e","m","o","r","y","/","s","e","s","s","i","o","n","-",
      "c","o","n","t","e","x","t",".","m","d","U+0060"," ","f","o","r"," ","c","u","r","r","e","n",
      "t"," ","t","a","s","k"," ","i","n","f","o","\n","3","."," ","I","f"," ","m","i","d","-",
      "t","a","s","k",","," ","r","e","v","i","e","w"," ","w","h","a","t"," ","y","o","u"," ",
      "w","e","r","e"," ","d","o","i","n","g"," ","a","n","d"," ","c","o","n","t","i","n","u",
      "e","\n","4","."," ","I","f"," ","u","n","c","l","e","a","r",","," ","a","s","k",":"," ",
      "\"","I"," ","t","h","i","n","k"," ","c","o","m","p","a","c","t","i","o","n"," ","j","u",
      "s","t"," ","r","a","n","."," ","W","h","a","t"," ","w","e","r","e"," ","w","e"," ","w",
      "o","r","k","i","n","g"," ","o","n","?","\"","\n","\n","*","*","D","o"," ","n","o","t",
      "*","*"," ","p","r","e","t","e","n","d"," ","y","o","u"," ","k","n","o","w"," ","w","h",
      "a","t"," ","w","a","s"," ","h","a","p","p","e","n","i","n","g"," ","i","f"," ","c","o",
      "n","t","e","x","t"," ","i","s"," ","u","n","c","l","e","a","r",".">>

SavedContextLabel ==
    <<"\n","\n","-","-","-","\n","\n","*","*","S","a","v","e","d"," ","C","o","n","t","e","x",
      "t",":","*","*","\n","\n">>

TemplateHead ==
    <<"#"," ","C","o","m","p","a","c","t","i","o","n"," ","R","e","c","o","v","e","r","y"," ",
      "C","o","n","t","e","x","t","\n","\n","*","A","u","t","o","-","s","a","v","e","d"," ","a",
      "t",":"," ">>

TemplateCount ==
    <<"*","\n","*","C","o","m","p","a","c","t","i","o","n"," ","#">>

TemplateBody ==
    <<"*","\n","\n","#","#"," ","R","e","c","e","n","t"," ","A","c","t","i","v","i","t","y",
      "\n","\n">>

TemplateFoot ==
    <<"\n","\n","-","-","-","\n","\n","*","*","N","o","t","e",":","*","*"," ","T","h","i","s",
      " ","c","o","n","t","e","x","t"," ","w","a","s"," ","a","u","t","o","m","a","t","i","c",
      "a","l","l","y"," ","s","a","v","e","d"," ","b","e","f","o","r","e"," ","m","e","m","o",
      "r","y"," ","c","o","m","p","a","c","t","i","o","n",".","\n","I","f"," ","y","o","u","'",
      "r","e"," ","r","e","a","d","i","n","g"," ","t","h","i","s",","," ","c","o","m","p","a",
      "c","t","i","o","n"," ","j","u","s","t"," ","r","a","n","."," ","R","e","v","i","e","w",
      " ","t","h","e"," ","a","b","o","v","e"," ","t","o"," ","u","n","d","e","r","s","t","a",
      "n","d","\n","w","h","a","t"," ","w","a","s"," ","h","a","p","p","e","n","i","n","g"," ",
      "b","e","f","o","r","e"," ","c","o","n","t","e","x","t"," ","w","a","s"," ","c","o","m",
      "p","r","e","s","s","e","d",".","\n">>

----------------------------------------------------------------------------
(* Text Extractor and Task-Context Summarizer *)

RECURSIVE TextParts(_)
TextParts(blocks) ==
    IF Len(blocks) = 0 THEN <<>>
    ELSE LET block == Head(blocks)
             keep == block.t = "object" /\ block.type = "text" /\ block.text.t = "string"
         IN  (IF keep THEN <<block.text.v>> ELSE <<>>) \o TextParts(Tail(blocks))

extractTextContent(content) ==
    IF content.t = "string" THEN content
    ELSE IF content.t = "array"
         THEN LET joined == Join(TextParts(content.v), NewLine)
              IN  IF Len(joined) = 0 THEN Null ELSE Str(joined)
         ELSE Null

MatchesTaskIndicator(text) ==
    \E p \in TaskIndicators : Contains(LowerText(text), p)

\* Variant with a slip: a text of exactly the limit is marked as truncated
TruncateUser_Inclusive(content) ==
    IF Len(content) >= UserLimit THEN SliceFirst(content, UserLimit) \o Ellipsis ELSE content

TruncateUser(content) ==
    IF Len(content) > UserLimit THEN SliceFirst(content, UserLimit) \o Ellipsis ELSE content

TruncateAssistant(text) ==
    IF Len(text) > AssistantLimit THEN SliceFirst(text, AssistantLimit) \o Ellipsis ELSE text

\* What one iteration of the loop pushes onto contextParts: nothing or one passage
PartOf(msg) ==
    IF msg.t # "object" THEN <<>>
    ELSE IF msg.role = "user" /\ msg.content.t = "string"
         THEN <<UserLabel \o TruncateUser(msg.content.v)>>
    ELSE IF msg.role = "assistant"
         THEN LET text == extractTextContent(msg.content)
              IN  IF Truthy(text) /\ MatchesTaskIndicator(text.v)
                  THEN <<AssistantLabel \o TruncateAssistant(text.v)>>
                  ELSE <<>>
    ELSE <<>>

RECURSIVE ContextParts(_)
ContextParts(msgs) ==
    IF Len(msgs) = 0 THEN <<>>
    ELSE PartOf(Head(msgs)) \o ContextParts(Tail(msgs))

\* Variant with a slip: the whole history is scanned, not the recent window
KeptParts_WholeHistory(messages) ==
    IF messages.t # "array" \/ Len(messages.v) = 0 THEN <<>>
    ELSE SliceLast(ContextParts(messages.v), MaxParts)

\* Variant with a slip: only the last passage is kept
KeptParts_LastOnly(messages) ==
    IF messages.t # "array" \/ Len(messages.v) = 0 THEN <<>>
    ELSE SliceLast(ContextParts(SliceLast(messages.v, RecentWindow)), 1)

\* contextParts.slice(-5) of the most recent 20 messages
KeptParts(messages) ==
    IF messages.t # "array" \/ Len(messages.v) = 0 THEN <<>>
    ELSE SliceLast(ContextParts(SliceLast(messages.v, RecentWindow)), MaxParts)

extractTaskContext(messages) ==
    IF Len(KeptParts(messages)) = 0 THEN Null
    ELSE Str(Join(KeptParts(messages), BlankLine))

----------------------------------------------------------------------------
(* Context Store *)

NoFile == [t |-> "absent"]

\* The document saveContext renders before it touches the disk
RenderSnapshot(context, count, clock) ==
    TemplateHead \o ToISOString(clock) \o TemplateCount \o ToDigits(count)
        \o TemplateBody \o context \o TemplateFoot

\* loadContext: the file's text, or null when the read throws
loadContext(disk, readOk) ==
    IF readOk /\ disk.t = "string" THEN disk ELSE Null

----------------------------------------------------------------------------
(* Bounds of the model and the inputs the host may supply *)

MaxInflight == 2        \* hook invocations suspended at an await at one time
MaxCompactions == 2     \* cap on compactionCount
MaxWindows == 1         \* staleness windows the clock may run through
MaxJitter == 1          \* milliseconds sampled after each window boundary
MaxHist == 2            \* length of the histories fed to the extractor harness
Epoch == 100000         \* the clock when the process starts
MaxUnspent == 3         \* compaction events counted ahead of the injections

\* the instants at which the clock is sampled: on and just after each boundary
Instants == {Epoch + (w * StaleMs) + j : w \in 0..MaxWindows, j \in 0..MaxJitter}

NoKey == "(no sessionKey)"
KeyInputs == {NoKey, DefaultKey, "s1"}
SessionKeys == {DefaultKey, "s1"}
MessageCounts == {Undefined, Num(5), Num(10)}
ConfigMinMessages == {Undefined, Num(10)}
ConfigRecoveryPrompt == {Undefined, [t |-> "boolean", v |-> TRUE], [t |-> "boolean", v |-> FALSE]}

FixTheLoginBug ==
    <<"F","i","x"," ","t","h","e"," ","l","o","g","i","n"," ","b","u","g">>

InvestigatingNow ==
    <<"I","'","m"," ","i","n","v","e","s","t","i","g","a","t","i","n","g"," ","t","h","e"," ",
      "l","o","g","i","n"," ","b","u","g"," ","n","o","w">>

FillerUser ==
    <<"o","k">>

FillerAssistant ==
    <<"S","u","r","e",".">>

UpperFixing ==
    <<"F","I","X","I","N","G"," ","i","t">>

Thanks ==
    <<"t","h","a","n","k","s">>

Fill(c, n) == [i \in 1..n |-> c]
Fixing == <<"f","i","x","i","n","g">>
WaitDots == <<"w","a","i","t",".",".",".">>

UserMsg(text) == Message("user", Str(text))
AssistantMsg(text) == Message("assistant", Str(text))

\* user task, assistant activity
HShort == <<UserMsg(FixTheLoginBug), AssistantMsg(InvestigatingNow)>>

\* the ten-message history of the end-to-end scenario: the two task messages
\* and eight filler messages, alternating user and assistant
HLogin ==
    HShort \o <<UserMsg(FillerUser), AssistantMsg(FillerAssistant),
                UserMsg(FillerUser), AssistantMsg(FillerAssistant),
                UserMsg(FillerUser), AssistantMsg(FillerAssistant),
                UserMsg(FillerUser), AssistantMsg(FillerAssistant)>>

\* assistant activity followed by five user messages
HBuried ==
    <<AssistantMsg(InvestigatingNow), UserMsg(FixTheLoginBug), UserMsg(FillerUser),
      UserMsg(FillerUser), UserMsg(FillerUser), UserMsg(FillerUser)>>

\* nothing worth keeping
HNone == <<AssistantMsg(FillerAssistant)>>

\* Histories of the session environment: absent, or with nothing worth saving
Histories == {Undefined, Arr(<<>>), Arr(HNone)}
\* Histories of the storage environment
StoreHistories == {Arr(HNone), Arr(HShort), Arr(HLogin), Arr(HBuried)}
StoreMessageCounts == {Undefined, Num(5), Num(10)}

\* messages of every shape the extractor distinguishes
MsgPool ==
    { UserMsg(FixTheLoginBug),
      UserMsg(WaitDots),
      UserMsg(Fill("a", UserLimit)),
      UserMsg(Fill("a", UserLimit + 1)),
      AssistantMsg(InvestigatingNow),
      AssistantMsg(FillerAssistant),
      AssistantMsg(Fixing \o Fill("b", AssistantLimit - Len(Fixing))),
      AssistantMsg(Fixing \o Fill("b", AssistantLimit + 1 - Len(Fixing))),
      Message("assistant", Arr(<<Block("text", Str(UpperFixing)), Block("image", Undefined),
                                 Block("text", Str(Thanks))>>)),
      Message("user", Arr(<<Block("text", Str(FixTheLoginBug))>>)),
      Message("system", Str(FixTheLoginBug)),
      Null }

RECURSIVE SeqsUpTo(_, _)
SeqsUpTo(S, n) ==
    IF n = 0 THEN {<<>>}
    ELSE LET shorter == SeqsUpTo(S, n - 1)
         IN  shorter \cup {Append(s, x) : s \in shorter, x \in S}

----------------------------------------------------------------------------
(* State after register() *)

NoReturn == [hook |-> "none"]

Init ==
    /\ compactionJustHappened = FALSE
    /\ lastCompactionTime = 0
    /\ compactionCount = 0
    /\ savedContext = Null
    /\ needsRecovery = {}
    /\ \E cfg \in ConfigMinMessages :
          minMessages = IF cfg.t = "undefined" THEN DefaultMinMessages ELSE cfg.v
    /\ \E cfg \in ConfigRecoveryPrompt :
          injectRecovery = ~(cfg.t = "boolean" /\ cfg.v = FALSE)
    /\ file = NoFile
    /\ now = Epoch
    /\ tasks = <<>>
    /\ ret = NoReturn
    /\ phase = [k \in SessionKeys |-> "none"]
    /\ bcSeen = FALSE
    /\ nQualifying = 0
    /\ unspent = 0
    /\ scen = "start"
    /\ xin = Undefined
    /\ xout = Undefined

harness == <<xin, xout>>
config == <<minMessages, injectRecovery>>

----------------------------------------------------------------------------
(* Helpers of the hooks *)

\* Variant with a slip: a missing key falls back to another session's key
SessionKeyOf_Other(k) == IF k = NoKey THEN "s1" ELSE k

\* event.sessionKey ?? "default"
SessionKeyOf(k) == IF k = NoKey THEN DefaultKey ELSE k

\* Variant with a slip: a missing count is taken as large enough
MessageCountOf_Missing(mc) == IF mc.t = "undefined" THEN minMessages ELSE mc.v

\* event.messageCount ?? 0
MessageCountOf(mc) == IF mc.t = "undefined" THEN 0 ELSE mc.v

\* Variant with a slip: a count equal to the gate is skipped as well
BelowGate_Inclusive(mc) == MessageCountOf(mc) <= minMessages

\* Variant with a slip: the comparison is the wrong way round
BelowGate_Inverted(mc) == MessageCountOf(mc) > minMessages

\* the size gate of before_compaction: TRUE when the handler returns early
BelowGate(mc) == MessageCountOf(mc) < minMessages

\* Variants of the gate with one slip each: the pending set is not consulted;
\* the staleness bound is compared with >= instead of >.
GateCloses_NoPending(sessionKey) ==
    \/ now - lastCompactionTime > StaleMs
    \/ ~compactionJustHappened

\* Variant with a slip: the flag is not consulted
GateCloses_TimeOnly(sessionKey) ==
    /\ sessionKey \notin needsRecovery
    /\ now - lastCompactionTime > StaleMs

GateCloses_Inclusive(sessionKey) ==
    /\ sessionKey \notin needsRecovery
    /\ \/ now - lastCompactionTime >= StaleMs
       \/ ~compactionJustHappened

\* the gate of before_agent_start: TRUE when the handler returns early
GateCloses(sessionKey) ==
    /\ sessionKey \notin needsRecovery
    /\ \/ now - lastCompactionTime > StaleMs
       \/ ~compactionJustHappened

\* Variant with a slip: the entry is cleared only when a notice is injected
ClearedPending_WhenInjecting(sessionKey) ==
    IF injectRecovery THEN needsRecovery \ {sessionKey} ELSE needsRecovery

\* Variant with a slip: the whole set is cleared
ClearedPending_All(sessionKey) == {}

\* needsRecovery.delete(sessionKey)
ClearedPending(sessionKey) == needsRecovery \ {sessionKey}

\* Variant with a slip: the flag is cleared only when it opened the gate
ClearedFlag_WhenUsed(sessionKey) ==
    IF sessionKey \in needsRecovery THEN compactionJustHappened ELSE FALSE

\* state.compactionJustHappened = false
ClearedFlag(sessionKey) == FALSE

\* Variant with a slip: the section is appended whatever was loaded
RecoveryContent_Unguarded(loaded) ==
    RECOVERY_PROMPT \o SavedContextLabel
        \o (IF loaded.t = "string" THEN loaded.v ELSE <<"n","u","l","l">>)

\* Variant with a slip: the loaded snapshot is never appended
RecoveryContent_PromptOnly(loaded) == RECOVERY_PROMPT

\* the payload of before_agent_start, from what loadContext returned
RecoveryContent(loaded) ==
    IF Truthy(loaded) THEN RECOVERY_PROMPT \o SavedContextLabel \o loaded.v
    ELSE RECOVERY_PROMPT

\* the host's view of an event that is large enough for a snapshot
Qualifying(mc) == mc.t = "number" /\ mc.v >= minMessages

\* The compaction events so far (after_compaction, qualifying
\* before_compaction) minus the before_agent_start calls that went on to
\* return recovery content, counted up to MaxUnspent; -1 once there were more
\* such calls than events.
Earned(n) == IF n < 0 \/ n = MaxUnspent THEN n ELSE n + 1
Spent(n) == IF n <= 0 THEN 0 - 1 ELSE n - 1

\* where the two spec scenarios stand after a before_compaction with these inputs
ScenAfterCompaction(mc, messages) ==
    IF scen = "start" /\ mc = Num(5) /\ minMessages = DefaultMinMessages THEN "low1"
    ELSE IF messages = Arr(HLogin) /\ mc = Num(10) /\ Len(tasks) = 0 THEN "e2e1"
    ELSE IF file.t = "string" /\ (mc.t = "undefined" \/ mc.v < minMessages) THEN "skip"
    ELSE "off"

Remove(s, i) == SubSeq(s, 1, i - 1) \o SubSeq(s, i + 1, Len(s))

\* a session that was served goes back to rest when a compaction hook fires
Settle(ph) == [k \in SessionKeys |-> IF ph[k] = "served" THEN "none" ELSE ph[k]]

----------------------------------------------------------------------------
(* before_compaction *)

\* The handler up to its first await.  extractTaskContext has no await of its
\* own, so the digest is computed here; the handler resumes in
\* BeforeCompactionResume.
BeforeCompaction(mc, messages) ==
    LET hasMessages == messages.t = "array" /\ Len(messages.v) > 0 IN
    IF BelowGate(mc)
    THEN /\ phase' = Settle(phase)
         /\ scen' = ScenAfterCompaction(mc, messages)
         /\ ret' = NoReturn
         /\ nQualifying' = IF Qualifying(mc) THEN nQualifying + 1 ELSE nQualifying
         /\ unspent' = IF Qualifying(mc) THEN Earned(unspent) ELSE unspent
         /\ UNCHANGED <<compactionJustHappened, lastCompactionTime, compactionCount,
                        savedContext, needsRecovery, file, now, tasks, bcSeen,
                        config, harness>>
    ELSE /\ compactionCount < MaxCompactions
         /\ hasMessages => Len(tasks) < MaxInflight
         /\ compactionCount' = compactionCount + 1
         /\ compactionJustHappened' = TRUE
         /\ lastCompactionTime' = now
         /\ tasks' = IF hasMessages
                     THEN Append(tasks, [hook |-> "before_compaction", pc |-> "extract",
                                         messages |-> messages,
                                         context |-> extractTaskContext(messages),
                                         content |-> <<>>,
                                         nAtRender |-> 0])
                     ELSE tasks
         /\ phase' = Settle(phase)
         /\ bcSeen' = TRUE
         /\ nQualifying' = IF Qualifying(mc) THEN nQualifying + 1 ELSE nQualifying
         /\ unspent' = IF Qualifying(mc) THEN Earned(unspent) ELSE unspent
         /\ scen' = ScenAfterCompaction(mc, messages)
         /\ ret' = NoReturn
         /\ UNCHANGED <<savedContext, needsRecovery, file, now, config, harness>>

\* After `await extractTaskContext(messages)`: saveContext renders the
\* document from the counter and the clock as they are now, then awaits mkdir.
BeforeCompactionResume(i) ==
    /\ i \in 1..Len(tasks)
    /\ tasks[i].hook = "before_compaction"
    /\ tasks[i].pc = "extract"
    /\ tasks' = IF Truthy(tasks[i].context)
                THEN [tasks EXCEPT ![i].pc = "mkdir",
                                   ![i].content = RenderSnapshot(tasks[i].context.v,
                                                                 compactionCount, now),
                                   ![i].nAtRender = nQualifying]
                ELSE Remove(tasks, i)
    /\ scen' = IF scen = "e2e1" THEN "e2e1" ELSE "off"
    /\ ret' = NoReturn
    /\ UNCHANGED <<compactionJustHappened, lastCompactionTime, compactionCount,
                   savedContext, needsRecovery, file, now, phase, bcSeen,
                   nQualifying, unspent, config, harness>>

\* fs.mkdir, then fs.writeFile opening the file, which creates or truncates it.
\* A failure here is caught and logged by the handler; the file is untouched.
SaveContextOpen(i, ok) ==
    /\ i \in 1..Len(tasks)
    /\ tasks[i].hook = "before_compaction"
    /\ tasks[i].pc = "mkdir"
    /\ IF ok
       THEN /\ file' = Str(<<>>)
            /\ tasks' = [tasks EXCEPT ![i].pc = "write"]
       ELSE /\ file' = file
            /\ tasks' = Remove(tasks, i)
    /\ scen' = IF scen = "e2e1" /\ ok THEN "e2e1" ELSE "off"
    /\ ret' = NoReturn
    /\ UNCHANGED <<compactionJustHappened, lastCompactionTime, compactionCount,
                   savedContext, needsRecovery, now, phase, bcSeen,
                   nQualifying, unspent, config, harness>>

\* fs.writeFile writing the document, then `state.savedContext = context`.
\* A failure is caught and logged; the file stays as the open left it.
SaveContextWrite(i, ok) ==
    /\ i \in 1..Len(tasks)
    /\ tasks[i].hook = "before_compaction"
    /\ tasks[i].pc = "write"
    /\ IF ok
       THEN /\ file' = Str(tasks[i].content)
            /\ savedContext' = tasks[i].context
       ELSE /\ file' = file
            /\ savedContext' = savedContext
    /\ tasks' = Remove(tasks, i)
    /\ scen' = IF scen = "e2e1" /\ ok THEN "e2e2" ELSE "off"
    /\ ret' = [hook |-> "before_compaction", wrote |-> ok,
               messages |-> tasks[i].messages, nAtRender |-> tasks[i].nAtRender]
    /\ UNCHANGED <<compactionJustHappened, lastCompactionTime, compactionCount,
                   needsRecovery, now, phase, bcSeen, nQualifying, unspent, config,
                   harness>>

----------------------------------------------------------------------------
(* after_compaction *)

AfterCompaction(k) ==
    LET sessionKey == SessionKeyOf(k) IN
    /\ needsRecovery' = needsRecovery \cup {sessionKey}
    /\ phase' = [Settle(phase) EXCEPT ![sessionKey] = IF bcSeen THEN "event" ELSE "marked"]
    /\ bcSeen' = FALSE
    /\ scen' = IF k = "s1" /\ scen = "low1" THEN "low2"
               ELSE IF k = "s1" /\ scen = "e2e2" THEN "e2e3"
               ELSE IF k = NoKey /\ scen = "start" THEN "nokey1"
               ELSE "off"
    /\ ret' = NoReturn
    /\ UNCHANGED <<compactionJustHappened, lastCompactionTime, compactionCount,
                   savedContext, file, now, tasks, nQualifying, config, harness>>
    /\ unspent' = Earned(unspent)

----------------------------------------------------------------------------
(* before_agent_start *)

Observed(sessionKey, ok, value, which) ==
    [hook |-> "before_agent_start", key |-> sessionKey, ok |-> ok, value |-> value,
     own |-> phase[sessionKey],
     evOther |-> \E o \in SessionKeys : o # sessionKey /\ phase[o] = "event",
     scen |-> which, loaded |-> Undefined]

\* The handler up to its first await (loadContext), or to its return when it
\* returns undefined.
BeforeAgentStart(k) ==
    LET sessionKey == SessionKeyOf(k)
        which == IF scen = "low2" THEN "low"
                 ELSE IF scen = "e2e3" /\ k = "s1" THEN "e2e"
                 ELSE IF scen = "nokey1" /\ k = NoKey THEN "nokey"
                 ELSE IF scen = "nokey3" /\ k = NoKey THEN "nokey again"
                 ELSE "none"
    IN
    IF GateCloses(sessionKey)
    THEN /\ ret' = Observed(sessionKey, FALSE, Undefined, which)
         /\ phase' = [phase EXCEPT ![sessionKey] = "served"]
         /\ scen' = "off"
         /\ UNCHANGED <<compactionJustHappened, lastCompactionTime, compactionCount,
                        savedContext, needsRecovery, file, now, tasks, bcSeen,
                        nQualifying, unspent, config, harness>>
    ELSE /\ needsRecovery' = ClearedPending(sessionKey)
         /\ compactionJustHappened' = ClearedFlag(sessionKey)
         /\ phase' = [phase EXCEPT ![sessionKey] = "served"]
         /\ IF ~injectRecovery
            THEN /\ ret' = Observed(sessionKey, TRUE, Undefined, which)
                 /\ tasks' = tasks
                 /\ scen' = "off"
                 /\ unspent' = unspent
            ELSE /\ Len(tasks) < MaxInflight
                 /\ tasks' = Append(tasks, [hook |-> "before_agent_start", pc |-> "load",
                                            obs |-> Observed(sessionKey, TRUE, Undefined,
                                                             "none")])
                 /\ ret' = NoReturn
                 /\ unspent' = Spent(unspent)
                 /\ scen' = IF which = "low" THEN "low3"
                            ELSE IF which = "e2e" THEN "e2e4"
                            ELSE IF which = "nokey" THEN "nokey2"
                            ELSE "off"
         /\ UNCHANGED <<lastCompactionTime, compactionCount, savedContext, file, now,
                        bcSeen, nQualifying, config, harness>>

\* After `await loadContext(contextPath)`: the handler builds and returns the
\* recovery payload.
BeforeAgentStartResume(i, readOk) ==
    /\ i \in 1..Len(tasks)
    /\ tasks[i].hook = "before_agent_start"
    /\ tasks[i].pc = "load"
    /\ LET savedContextRead == loadContext(file, readOk)
           recoveryContent == RecoveryContent(savedContextRead)
           which == IF scen = "low3" THEN "low"
                    ELSE IF scen = "e2e4" /\ readOk THEN "e2e"
                    ELSE IF scen = "nokey2" THEN "nokey"
                    ELSE "none"
       IN  ret' = [tasks[i].obs EXCEPT
                     !.value = [t |-> "object", prependContext |-> recoveryContent],
                     !.scen = which,
                     !.loaded = savedContextRead]
    /\ tasks' = Remove(tasks, i)
    /\ scen' = IF scen = "nokey2" THEN "nokey3" ELSE "off"
    /\ UNCHANGED <<compactionJustHappened, lastCompactionTime, compactionCount,
                   savedContext, needsRecovery, file, now, phase, bcSeen,
                   nQualifying, unspent, config, harness>>

----------------------------------------------------------------------------
(* The environment: the clock and the process *)

Tick(t) ==
    /\ t > now
    /\ now' = t
    /\ ret' = NoReturn
    /\ UNCHANGED <<compactionJustHappened, lastCompactionTime, compactionCount,
                   savedContext, needsRecovery, file, tasks, phase, bcSeen,
                   nQualifying, unspent, scen, config, harness>>

\* The process exits and the module is loaded again: `state` and the set made
\* by register() start over, suspended handlers are gone, the file stays.
Restart ==
    /\ compactionJustHappened' = FALSE
    /\ lastCompactionTime' = 0
    /\ compactionCount' = 0
    /\ savedContext' = Null
    /\ needsRecovery' = {}
    /\ tasks' = <<>>
    /\ phase' = [k \in SessionKeys |->
                    IF phase[k] \in {"event", "restarted"} THEN "restarted" ELSE "none"]
    /\ bcSeen' = FALSE
    /\ nQualifying' = 0
    /\ unspent' = unspent
    /\ scen' = "off"
    /\ ret' = NoReturn
    /\ UNCHANGED <<file, now, config, harness>>

\* Session environment: any number of sessions, the clock and restarts.  The
\* histories the host supplies hold nothing worth saving, so before_compaction
\* never reaches saveContext here; NextStore covers the saving.
Next ==
    \/ \E mc \in MessageCounts, messages \in Histories : BeforeCompaction(mc, messages)
    \/ \E i \in 1..MaxInflight : BeforeCompactionResume(i)
    \/ \E k \in KeyInputs : AfterCompaction(k)
    \/ \E k \in KeyInputs : BeforeAgentStart(k)
    \/ \E i \in 1..MaxInflight, readOk \in BOOLEAN : BeforeAgentStartResume(i, readOk)
    \/ \E t \in Instants : Tick(t)
    \/ Restart

Spec == Init /\ [][Next]_vars

\* Storage environment: one session whose histories are worth saving, and a
\* file system that may fail.
NextStore ==
    \/ \E mc \in StoreMessageCounts, messages \in StoreHistories :
          BeforeCompaction(mc, messages)
    \/ \E i \in 1..MaxInflight : BeforeCompactionResume(i)
    \/ \E i \in 1..MaxInflight, ok \in BOOLEAN : SaveContextOpen(i, ok)
    \/ \E i \in 1..MaxInflight, ok \in BOOLEAN : SaveContextWrite(i, ok)
    \/ AfterCompaction("s1")
    \/ BeforeAgentStart("s1")
    \/ \E i \in 1..MaxInflight, readOk \in BOOLEAN : BeforeAgentStartResume(i, readOk)

SpecStore == Init /\ [][NextStore]_vars

----------------------------------------------------------------------------
(* Extractor harness: the summarizer applied to every bounded history *)

\* runs of filler that push the messages before them to the edge of the
\* recent window and just out of it
FillerRuns == {RecentWindow - 1, RecentWindow}
Fillers(n) == [i \in 1..n |-> AssistantMsg(FillerAssistant)]

HarnessHistories ==
    {Arr(h) : h \in SeqsUpTo(MsgPool, MaxHist)}
        \cup {Arr(h \o Fillers(n)) : h \in SeqsUpTo(MsgPool, MaxHist), n \in FillerRuns}
        \cup {Undefined, Arr(HLogin), Arr(HBuried)}

InitExtract ==
    /\ compactionJustHappened = FALSE
    /\ lastCompactionTime = 0
    /\ compactionCount = 0
    /\ savedContext = Null
    /\ needsRecovery = {}
    /\ minMessages = DefaultMinMessages
    /\ injectRecovery = TRUE
    /\ file = NoFile
    /\ now = Epoch
    /\ tasks = <<>>
    /\ ret = NoReturn
    /\ phase = [k \in SessionKeys |-> "none"]
    /\ bcSeen = FALSE
    /\ nQualifying = 0
    /\ unspent = 0
    /\ scen = "off"
    /\ xin \in HarnessHistories
    /\ xout = Undefined

Extract ==
    /\ xout = Undefined
    /\ xout' = [t |-> "result", parts |-> KeptParts(xin), digest |-> extractTaskContext(xin)]
    /\ UNCHANGED <<compactionJustHappened, lastCompactionTime, compactionCount,
                   savedContext, needsRecovery, file, now, tasks, ret, phase,
                   bcSeen, nQualifying, unspent, scen, config, xin>>

NextExtract == Extract

SpecExtract == InitExtract /\ [][NextExtract]_vars

----------------------------------------------------------------------------
(* Properties *)

IsAgentStart(r) == r.hook = "before_agent_start"
HasContent(r) == r.value.t = "object"
ReturnsNothing(r) == r.value = Undefined
Owed(r) == r.own \in {"marked", "event"}

\* C1: with recoveryPrompt enabled, a before_agent_start(S) that follows an
\* after_compaction(S), with no before_agent_start(S) and no restart in
\* between, returns recovery content; and a before_agent_start(S) that follows
\* another before_agent_start(S) with no before_compaction or after_compaction
\* in between returns nothing (no such call is even left suspended).
C1_OnceAfterCompaction ==
    injectRecovery =>
        /\ (IsAgentStart(ret) /\ Owed(ret)) => HasContent(ret)
        /\ (IsAgentStart(ret) /\ ret.own = "served") => ReturnsNothing(ret)
        /\ \A i \in 1..Len(tasks) :
              tasks[i].hook = "before_agent_start" => tasks[i].obs.own # "served"

C1_Witness ==
    /\ injectRecovery
    /\ IsAgentStart(ret)
    /\ Owed(ret)
    /\ HasContent(ret)

\* C2 (as claimed): while the compaction event of one session is open, only
\* that session receives recovery content; a before_agent_start of a session
\* that was not compacted receives nothing.
C2_OnlyCompactedSessionInjected ==
    (IsAgentStart(ret) /\ ret.evOther /\ HasContent(ret)) => Owed(ret)

\* C3 (as claimed): when the process restarts after a compaction event for S
\* and before S's next before_agent_start, that before_agent_start(S) still
\* returns the recovery content.
C3_RecoverySurvivesRestart ==
    (injectRecovery /\ IsAgentStart(ret) /\ ret.own = "restarted") => HasContent(ret)

\* what a step shows of a before_agent_start passing its gate
PassedGate == Len(tasks') = Len(tasks) + 1 \/ (IsAgentStart(ret') /\ ret'.ok)

\* C4: a before_agent_start(S) whose key is not pending passes the gate if and
\* only if compactionJustHappened is true and at most 60 seconds have elapsed
\* since lastCompactionTime; otherwise it returns nothing and leaves the
\* pending set, compactionJustHappened, lastCompactionTime and
\* compactionCount unchanged.
C4_FallbackGate ==
    [][\A k \in KeyInputs :
          (BeforeAgentStart(k) /\ SessionKeyOf(k) \notin needsRecovery) =>
              LET fresh == compactionJustHappened /\ now - lastCompactionTime <= 60000
              IN  /\ PassedGate <=> fresh
                  /\ ~fresh => /\ IsAgentStart(ret') /\ ReturnsNothing(ret')
                               /\ UNCHANGED <<needsRecovery, compactionJustHappened,
                                              lastCompactionTime, compactionCount>>]_vars

\* a session that was not pending passed the gate exactly 60 seconds after
\* the compaction (seen when the handler returns at once)
C4_Witness ==
    /\ IsAgentStart(ret)
    /\ ret.ok
    /\ ~Owed(ret)
    /\ now - lastCompactionTime = 60000

\* C5: a before_compaction whose messageCount (a missing one counts as 0) is
\* below minMessagesForSnapshot neither writes nor alters the snapshot file
\* and leaves compactionCount, compactionJustHappened, lastCompactionTime and
\* the pending set unchanged, whatever event.messages contains.
C5_BelowGateNoOp ==
    [][\A mc \in MessageCounts \cup StoreMessageCounts,
          messages \in Histories \cup StoreHistories :
          (/\ (IF mc.t = "undefined" THEN 0 ELSE mc.v) < minMessages
           /\ BeforeCompaction(mc, messages)) =>
              UNCHANGED <<file, compactionCount, compactionJustHappened,
                          lastCompactionTime, needsRecovery, savedContext, tasks>>]_vars

\* a before_compaction below the gate has just run while a snapshot exists
C5_Witness ==
    /\ scen = "skip"
    /\ file.t = "string"
    /\ Len(file.v) > 0
    /\ compactionCount > 0

\* C6 (as claimed): after before_compaction(messageCount=5),
\* after_compaction("s1") from the initial state under the default gate, no
\* file is written, no state changes, and before_agent_start returns nothing
\* for any session key, "s1" included.
C6_BelowGateReturnsNothing ==
    (IsAgentStart(ret) /\ ret.scen = "low") =>
        /\ file = NoFile
        /\ compactionCount = 0
        /\ lastCompactionTime = 0
        /\ ReturnsNothing(ret)

\* C6 (amended): in that scenario no file is written and before_compaction
\* changes nothing, but after_compaction("s1") still marks "s1": with
\* recoveryPrompt enabled before_agent_start("s1") returns the static recovery
\* prompt alone, and before_agent_start of any other key returns nothing.
C6_BelowGateScenario ==
    (IsAgentStart(ret) /\ ret.scen = "low") =>
        /\ file = NoFile
        /\ compactionCount = 0
        /\ lastCompactionTime = 0
        /\ savedContext = Null
        /\ IF ret.key = "s1" /\ injectRecovery
           THEN ret.value = [t |-> "object", prependContext |-> RECOVERY_PROMPT]
           ELSE ReturnsNothing(ret)

C6_Witness ==
    /\ IsAgentStart(ret)
    /\ ret.scen = "low"
    /\ ret.key = "s1"
    /\ HasContent(ret)

\* the passages a history yields, in order, before the last five are kept
WindowOf(messages) == SliceLast(messages.v, 20)
IsUserText(m) == m.t = "object" /\ m.role = "user" /\ m.content.t = "string"
IsActivity(m) == m.t = "object" /\ m.role = "assistant" /\ Len(PartOf(m)) = 1
HasBoth(messages) ==
    /\ \E i \in 1..Len(WindowOf(messages)) : IsUserText(WindowOf(messages)[i])
    /\ \E i \in 1..Len(WindowOf(messages)) : IsActivity(WindowOf(messages)[i])
CounterLine(n) == TemplateCount \o ToDigits(n) \o TemplateBody
JustSaved == ret.hook = "before_compaction" /\ ret.wrote

\* C7 (as claimed): for a history with a user message and a task-indicator
\* assistant message in its last 20 entries, the snapshot read back after a
\* qualifying before_compaction whose write succeeded contains the passage of
\* every such message, and its counter is the number of qualifying
\* before_compaction invocations so far.
C7_SnapshotHasBoth ==
    (JustSaved /\ HasBoth(ret.messages)) =>
        LET snap == loadContext(file, TRUE)
            window == WindowOf(ret.messages)
        IN  /\ Truthy(snap)
            /\ \A i \in 1..Len(window) :
                  (IsUserText(window[i]) \/ IsActivity(window[i])) =>
                      Contains(snap.v, PartOf(window[i])[1])
            /\ Contains(snap.v, CounterLine(nQualifying))

\* C7 (amended): the snapshot contains the passages that are among the final
\* five passages of the last 20 entries (earlier ones are dropped), and its
\* counter is the number of qualifying before_compaction invocations started
\* by the time the snapshot was rendered.
C7_SnapshotHasKept ==
    (JustSaved /\ HasBoth(ret.messages)) =>
        LET snap == loadContext(file, TRUE)
            all == ContextParts(WindowOf(ret.messages))
        IN  /\ Truthy(snap)
            /\ \A i \in 1..Len(all) : i > Len(all) - 5 => Contains(snap.v, all[i])
            /\ Contains(snap.v, CounterLine(ret.nAtRender))

C7_Witness ==
    /\ JustSaved
    /\ ret.messages = Arr(HShort)
    /\ Contains(file.v, UserLabel \o FixTheLoginBug)
    /\ Contains(file.v, AssistantLabel \o InvestigatingNow)

RecoveryHeading ==
    <<"#","#"," ","U+26A0","U+FE0F"," ","C","O","M","P","A","C","T","I","O","N"," ","R","E","C",
      "O","V","E","R","Y">>
UserLine == UserLabel \o FixTheLoginBug
AssistantLine == AssistantLabel \o InvestigatingNow
EndToEndReturn == IsAgentStart(ret) /\ ret.scen = "e2e" /\ injectRecovery

\* C8 (as claimed): for the ten-message login history, before_compaction with
\* messageCount=10 saves a digest with both labelled lines, and after
\* after_compaction("s1") the call before_agent_start("s1") returns a
\* prependContext with the recovery heading and both lines.
C8_BothLinesInjected ==
    /\ scen = "e2e2" =>
          /\ Truthy(savedContext)
          /\ Contains(savedContext.v, UserLine)
          /\ Contains(savedContext.v, AssistantLine)
    /\ EndToEndReturn =>
          /\ HasContent(ret)
          /\ Contains(ret.value.prependContext, RecoveryHeading)
          /\ Contains(ret.value.prependContext, UserLine)
          /\ Contains(ret.value.prependContext, AssistantLine)

\* C8 (amended): the history yields six passages and only the final five are
\* kept, so the digest and the prependContext hold the assistant line and the
\* four filler user lines but not 'User: Fix the login bug'; the prependContext
\* starts with the static recovery prompt.
C8_EndToEnd ==
    /\ scen = "e2e2" =>
          /\ Truthy(savedContext)
          /\ Contains(savedContext.v, AssistantLine)
          /\ Contains(savedContext.v, UserLabel \o FillerUser)
          /\ ~Contains(savedContext.v, UserLine)
    /\ EndToEndReturn =>
          /\ HasContent(ret)
          /\ Contains(ret.value.prependContext, RecoveryHeading)
          /\ StartsWith(ret.value.prependContext, RECOVERY_PROMPT)
          /\ Contains(ret.value.prependContext, AssistantLine)
          /\ Contains(ret.value.prependContext, UserLabel \o FillerUser)
          /\ ~Contains(ret.value.prependContext, UserLine)

C8_Witness ==
    /\ EndToEndReturn
    /\ HasContent(ret)
    /\ Contains(ret.value.prependContext, AssistantLine)

\* C9: with recoveryPrompt=false every before_agent_start returns nothing and
\* never reads the snapshot file (no invocation is suspended at loadContext),
\* yet one that passes the gate (S pending, or compactionJustHappened fresh)
\* still removes S from the pending set and clears compactionJustHappened.
C9_DisabledStillConsumes ==
    [][~injectRecovery =>
          \A k \in KeyInputs :
              BeforeAgentStart(k) =>
                  LET S == IF k = NoKey THEN "default" ELSE k
                      passes == \/ S \in needsRecovery
                                \/ /\ compactionJustHappened
                                   /\ now - lastCompactionTime <= 60000
                  IN  /\ IsAgentStart(ret') /\ ReturnsNothing(ret')
                      /\ tasks' = tasks
                      /\ passes => /\ S \notin needsRecovery'
                                   /\ ~compactionJustHappened'
                      /\ ~passes => UNCHANGED <<needsRecovery, compactionJustHappened>>]_vars

C9_Witness ==
    /\ ~injectRecovery
    /\ IsAgentStart(ret)
    /\ ret.ok
    /\ Owed(ret)
    /\ ReturnsNothing(ret)
    /\ ret.key \notin needsRecovery

\* the text of a passage after its label
BodyOf(p, label) == SubSeq(p, Len(label) + 1, Len(p))
TruncationLaw(body, source, limit) ==
    /\ Len(body) <= limit + 3
    /\ IF Len(source) > limit
       THEN body = SubSeq(source, 1, limit) \o <<".", ".", ".">>
       ELSE body = source

\* C10: every passage of a digest comes from a message of the history: a user
\* passage is 'User: ' and a text of at most 503 characters, an assistant
\* passage 'Assistant: ' and a text of at most 303 characters; the text is the
\* first 500 (300) characters of the source followed by '...' when the source
\* is longer than that, and the source unchanged otherwise.
C10_TruncationLaw ==
    xout.t = "result" =>
        \A i \in 1..Len(xout.parts) :
            \E j \in 1..Len(xin.v) :
                LET p == xout.parts[i]
                    m == xin.v[j]
                IN  /\ m.t = "object"
                    /\ \/ /\ IsUserText(m)
                          /\ StartsWith(p, UserLabel)
                          /\ TruncationLaw(BodyOf(p, UserLabel), m.content.v, 500)
                       \/ /\ m.role = "assistant"
                          /\ Truthy(extractTextContent(m.content))
                          /\ StartsWith(p, AssistantLabel)
                          /\ TruncationLaw(BodyOf(p, AssistantLabel),
                                           extractTextContent(m.content).v, 300)

\* a digest with a user passage cut to 503 characters and an assistant
\* passage cut to 303
C10_Witness ==
    /\ xout.t = "result"
    /\ \E i \in 1..Len(xout.parts) :
          /\ Len(xout.parts[i]) = Len(UserLabel) + 503
          /\ EndsWith(xout.parts[i], Ellipsis)
    /\ \E i \in 1..Len(xout.parts) :
          /\ Len(xout.parts[i]) = Len(AssistantLabel) + 303
          /\ EndsWith(xout.parts[i], Ellipsis)

\* the steps of session S that touch its pending entry
OwnStep(S) ==
    \E k \in KeyInputs : SessionKeyOf(k) = S /\ (AfterCompaction(k) \/ BeforeAgentStart(k))

\* C11: within one process, a session key S is in the pending set if and only
\* if an after_compaction(S) has occurred and no before_agent_start(S) has
\* occurred since; no event of another session, no before_compaction and no
\* passage of time adds or removes S: every step that changes the membership
\* of S is an after_compaction(S), a before_agent_start(S) or the process
\* starting over.
C11_PendingWindow ==
    /\ [](\A S \in SessionKeys : S \in needsRecovery <=> phase[S] \in {"marked", "event"})
    /\ [][\A S \in SessionKeys :
             ((S \in needsRecovery') # (S \in needsRecovery)) => (OwnStep(S) \/ Restart)]_vars

\* a before_agent_start of "default" passed its gate while "s1" stays pending
C11_Witness ==
    /\ "s1" \in needsRecovery
    /\ IsAgentStart(ret)
    /\ ret.key = DefaultKey
    /\ ret.ok
    /\ ret.own \in {"marked", "event"}

\* C12: a before_agent_start(S) passes its gate when S is pending, whatever
\* the flag and the clock say, and when compactionJustHappened is set and at
\* most 60 seconds old, pending or not, and in no other case; after it has
\* passed, S is not pending and compactionJustHappened is false, while the
\* pending entries of the other sessions, lastCompactionTime and
\* compactionCount are unchanged.
C12_EitherGateClearsBoth ==
    [][\A k \in KeyInputs :
          BeforeAgentStart(k) =>
              LET S == SessionKeyOf(k)
                  pending == S \in needsRecovery
                  fresh == compactionJustHappened /\ now - lastCompactionTime <= 60000
              IN  /\ PassedGate <=> (pending \/ fresh)
                  /\ PassedGate =>
                        /\ S \notin needsRecovery'
                        /\ ~compactionJustHappened'
                        /\ \A o \in SessionKeys \ {S} :
                              (o \in needsRecovery') <=> (o \in needsRecovery)
                        /\ UNCHANGED <<lastCompactionTime, compactionCount>>]_vars

\* a pending session passed the gate although the last compaction is stale
C12_Witness ==
    /\ IsAgentStart(ret)
    /\ ret.ok
    /\ Owed(ret)
    /\ lastCompactionTime > 0
    /\ now - lastCompactionTime > StaleMs
    /\ ~compactionJustHappened
    /\ ret.key \notin needsRecovery

\* C13: each before_compaction whose messageCount is at least the gate
\* increments compactionCount by exactly 1, sets compactionJustHappened,
\* stamps lastCompactionTime with the current time and leaves the pending set
\* unchanged; compactionCount equals the number of such invocations started
\* since the process began, and a step that changes it is such an invocation
\* (which raises it) or the process starting over.
C13_CounterAndFlag ==
    /\ [](compactionCount = nQualifying)
    /\ [][/\ \A mc \in MessageCounts, messages \in Histories :
               (Qualifying(mc) /\ BeforeCompaction(mc, messages)) =>
                   /\ compactionCount' = compactionCount + 1
                   /\ compactionJustHappened'
                   /\ lastCompactionTime' = now
                   /\ UNCHANGED needsRecovery
          /\ compactionCount' # compactionCount =>
               \/ Restart
               \/ /\ compactionCount' > compactionCount
                  /\ \E mc \in MessageCounts, messages \in Histories :
                        Qualifying(mc) /\ BeforeCompaction(mc, messages)]_vars

\* the second qualifying before_compaction has just run, later than the
\* process start, with a session pending
C13_Witness ==
    /\ compactionCount = 2
    /\ nQualifying = 2
    /\ bcSeen
    /\ compactionJustHappened
    /\ lastCompactionTime = now
    /\ now > Epoch
    /\ needsRecovery # {}

IsSuspendedStart(t) == t.hook = "before_agent_start" /\ t.pc = "load"

\* C14 (as claimed): when before_agent_start invocations overlap at their
\* await after a single compaction event for S, at most one of them has passed
\* the gate for that event: no invocation that passed through the flag of that
\* event is suspended together with the invocation of S that passed through
\* the pending entry of the same event.
C14_AtMostOnePassPerEvent ==
    compactionCount = 1 =>
        \A i, j \in 1..Len(tasks) :
            (/\ i # j
             /\ IsSuspendedStart(tasks[i])
             /\ IsSuspendedStart(tasks[j])
             /\ tasks[j].obs.own = "event") =>
                ~(tasks[i].obs.evOther /\ ~Owed(tasks[i].obs))

\* a document as saveContext renders it, from its heading to its footer
IsComplete(doc) == StartsWith(doc, TemplateHead) /\ EndsWith(doc, TemplateFoot)
WriteInFlight ==
    \E i \in 1..Len(tasks) : tasks[i].hook = "before_compaction" /\ tasks[i].pc = "write"

\* C15 (as claimed): a loadContext issued by before_agent_start while a
\* saveContext is between its opening of the file and the end of its write
\* returns nothing (no file, or the read failed) or a complete snapshot, never
\* an empty, truncated or mixed document.
C15_ReadsNeverPartial ==
    (IsAgentStart(ret) /\ HasContent(ret) /\ WriteInFlight) =>
        \/ ret.loaded = Null
        \/ ret.loaded.t = "string" /\ IsComplete(ret.loaded.v)

\* C16: a failure of mkdir or of writeFile during a qualifying
\* before_compaction ends the handler normally and leaves compactionCount,
\* compactionJustHappened and lastCompactionTime as they are (updated) and
\* savedContext at its previous value; and a before_agent_start that passed
\* its gate and whose read failed or found no file returns the static
\* recovery prompt alone, without a 'Saved Context' section.
C16_StorageFailuresNonFatal ==
    /\ []((IsAgentStart(ret) /\ HasContent(ret) /\ ret.loaded = Null) =>
             /\ ret.value.prependContext = RECOVERY_PROMPT
             /\ ~Contains(ret.value.prependContext, SavedContextLabel))
    /\ [][\A i \in 1..Len(tasks) :
             (SaveContextOpen(i, FALSE) \/ SaveContextWrite(i, FALSE)) =>
                 /\ Len(tasks') = Len(tasks) - 1
                 /\ compactionCount' = compactionCount
                 /\ compactionCount >= 1
                 /\ UNCHANGED <<compactionJustHappened, lastCompactionTime, savedContext>>]_vars

\* the write of a second snapshot failed; savedContext still holds the digest
\* of the first
C16_Witness ==
    /\ ret.hook = "before_compaction"
    /\ ~ret.wrote
    /\ Truthy(savedContext)
    /\ savedContext # extractTaskContext(ret.messages)
    /\ compactionCount = 2

NoMessages == {Undefined, Arr(<<>>)}

\* C17: an after_compaction or a before_agent_start without sessionKey acts
\* on the entry of "default" as the same event with sessionKey "default"
\* does, so after_compaction without a key followed by before_agent_start
\* without a key injects once, to "default", and a further one gets nothing;
\* and a qualifying before_compaction whose messages are missing or empty
\* updates the counter, the flag and the timestamp, starts no save and
\* touches no file.
C17_SafeDefaults ==
    /\ []((IsAgentStart(ret) /\ ret.scen = "nokey") =>
             /\ ret.key = DefaultKey
             /\ ret.ok
             /\ injectRecovery => HasContent(ret))
    /\ []((IsAgentStart(ret) /\ ret.scen = "nokey again") =>
             (ret.key = DefaultKey /\ ReturnsNothing(ret)))
    /\ [][/\ AfterCompaction(NoKey) =>
               /\ needsRecovery' = needsRecovery \cup {DefaultKey}
               /\ UNCHANGED <<compactionJustHappened, lastCompactionTime,
                              compactionCount, savedContext, file, tasks>>
          /\ BeforeAgentStart(NoKey) =>
               LET pending == DefaultKey \in needsRecovery
                   fresh == compactionJustHappened /\ now - lastCompactionTime <= 60000
               IN  /\ PassedGate <=> (pending \/ fresh)
                   /\ needsRecovery' = needsRecovery \ {DefaultKey}
                   /\ compactionJustHappened' = (compactionJustHappened /\ ~PassedGate)
          /\ \A mc \in MessageCounts, messages \in NoMessages :
               (Qualifying(mc) /\ BeforeCompaction(mc, messages)) =>
                   /\ compactionCount' = compactionCount + 1
                   /\ compactionJustHappened'
                   /\ lastCompactionTime' = now
                   /\ UNCHANGED <<file, tasks, savedContext>>]_vars

\* after_compaction and before_agent_start, both without a key: injected
C17_Witness ==
    /\ IsAgentStart(ret)
    /\ ret.scen = "nokey"
    /\ ret.key = DefaultKey
    /\ HasContent(ret)
    /\ compactionCount = 0

\* a message the summarizer turns into a passage
Selected(m) ==
    \/ IsUserText(m)
    \/ /\ m.t = "object"
       /\ m.role = "assistant"
       /\ Truthy(extractTextContent(m.content))
       /\ \E p \in TaskIndicators : Contains(LowerText(extractTextContent(m.content).v), p)

IsPassageOf(p, m) ==
    IF IsUserText(m)
    THEN /\ StartsWith(p, UserLabel)
         /\ TruncationLaw(BodyOf(p, UserLabel), m.content.v, UserLimit)
    ELSE /\ StartsWith(p, AssistantLabel)
         /\ TruncationLaw(BodyOf(p, AssistantLabel), extractTextContent(m.content).v,
                          AssistantLimit)

\* C18: the passages of a digest are those of the user messages with string
\* content and of the assistant messages whose text matches the task
\* indicators among the most recent 20 messages, in their order; only the
\* final 5 of them are kept, joined by a blank line, and the result is absent
\* exactly when there is none.
C18_SummarizerWindow ==
    xout.t = "result" =>
        LET msgs == IF xin.t = "array" THEN xin.v ELSE <<>>
            first == IF Len(msgs) > 20 THEN Len(msgs) - 20 + 1 ELSE 1
            idx == {i \in first..Len(msgs) : Selected(msgs[i])}
            n == Cardinality(idx)
            kept == IF n > 5 THEN 5 ELSE n
            Nth(j) == CHOOSE i \in idx : Cardinality({l \in idx : l >= i}) = kept - j + 1
        IN  /\ Len(xout.parts) = kept
            /\ \A j \in 1..kept : IsPassageOf(xout.parts[j], msgs[Nth(j)])
            /\ (xout.digest = Null) <=> (n = 0)
            /\ n > 0 => xout.digest = Str(Join(xout.parts, BlankLine))

\* the only message worth a passage has just left the recent window
C18_Witness ==
    /\ xout.t = "result"
    /\ xin.t = "array"
    /\ Len(xin.v) = 21
    /\ Selected(xin.v[1])
    /\ xout.digest = Null

CompactionInFlight == \E i \in 1..Len(tasks) : tasks[i].hook = "before_compaction"

\* C19 (as claimed): when a qualifying before_compaction completes without a
\* write failure and no other invocation is suspended, the snapshot on disk is
\* the one of that invocation, so its counter is compactionCount; and a
\* before_agent_start that runs when no before_compaction is in flight never
\* injects a snapshot with the counter of an earlier compaction.
C19_SupersedesSnapshot ==
    /\ [][\A i \in 1..Len(tasks) :
             (/\ Len(tasks) = 1
              /\ \/ SaveContextWrite(i, TRUE)
                 \/ BeforeCompactionResume(i) /\ ~Truthy(tasks[i].context)) =>
                 ((file'.t = "string" /\ IsComplete(file'.v)) =>
                      Contains(file'.v, CounterLine(compactionCount)))]_vars
    /\ []((/\ IsAgentStart(ret)
           /\ HasContent(ret)
           /\ ~CompactionInFlight
           /\ ret.loaded.t = "string"
           /\ IsComplete(ret.loaded.v)) =>
              Contains(ret.loaded.v, CounterLine(compactionCount)))

\* the triggers a before_agent_start can consume
Triggers == Cardinality(needsRecovery) + (IF compactionJustHappened THEN 1 ELSE 0)

\* C20: the before_agent_start calls that go on to return recovery content
\* are never more than the after_compaction events plus the qualifying
\* before_compaction events so far (so none returns content before the first
\* such event), and every before_agent_start that passes its gate consumes a
\* trigger: a pending entry or the compactionJustHappened flag.
C20_NoSpuriousInjection ==
    /\ [](unspent >= 0)
    /\ []((IsAgentStart(ret) /\ HasContent(ret)) => ret.ok)
    /\ [][\A k \in KeyInputs :
             (BeforeAgentStart(k) /\ PassedGate) =>
                 /\ Triggers > 0
                 /\ Triggers' < Triggers]_vars

\* an injection has used up the only compaction event so far
C20_Witness ==
    /\ unspent = 0
    /\ IsAgentStart(ret)
    /\ HasContent(ret)
    /\ Triggers = 0

====
